---- MODULE Spec2Model ----
(***************************************************************************)
(* Interview conversation engine of app/services/llm_service.py:          *)
(* InterviewContext (the session state) and LLMService.generate_response  *)
(* (one conversational turn against the text-generation provider, with    *)
(* its retry loop and its fallback).                                      *)
(*                                                                         *)
(* scores["overall"] is a Python float (sum / 3).  The model keeps it as  *)
(* the exact number of thirds: scores.overall = 3 * (Python's overall),   *)
(* so that sum / 3 is kept as sum and an integer n as 3 * n.              *)
(***************************************************************************)
EXTENDS Integers, Sequences, FiniteSets, TLC

VARIABLES
    model,          \* LLMService.model: the provider handle
    history,        \* InterviewContext.history
    current_phase,  \* InterviewContext.current_phase
    scores,         \* InterviewContext.scores
    feedback,       \* InterviewContext.feedback
    pc,             \* position of the generate_response call in flight
    attempt,        \* loop variable of "for attempt in range(max_retries)"
    user_input,     \* argument of the call in flight
    calls,          \* model.predict calls made by the call in flight
    delays,         \* seconds the call in flight has spent in time.sleep
    pre,            \* the session as it was when the call in flight was entered
    result,         \* what the last generate_response call returned
    turns,          \* generate_response calls completed on the session
    reply,          \* what model.predict gave the attempt that has just run
    questions_asked, \* InterviewContext.questions_asked
    report,         \* what the last generate_final_report call returned
    rcalls,         \* model.predict calls made by the last generate_final_report call
    rreply,         \* what model.predict gave the last generate_final_report call
    heap,           \* the lists and dicts InterviewContext objects hold, by identity
    sess,           \* the InterviewContext objects of several concurrent interviews
    scheduler,      \* what runs the interviews' calls: "loop" (one event loop) or "threads"
    actor,          \* the interview whose call took the latest step
    users,          \* the users table: interviews_remaining of each stored user
    procs,          \* the callers of the database and interview-start operations
    started,        \* phone calls start_interview_call has started
    granted         \* interviews_remaining of the stored user at the outset

vars == <<model, history, current_phase, scores, feedback, pc, attempt,
          user_input, calls, delays, pre, result, turns, reply,
          questions_asked, report, rcalls, rreply, heap, sess, scheduler, actor,
          users, procs, started, granted>>

\* the one-interview view of the engine
singlevars == <<history, current_phase, scores, feedback, pc, attempt,
                user_input, calls, delays, pre, result, turns, reply,
                questions_asked, report, rcalls, rreply>>

\* the several-interviews view of the engine
sessionvars == <<heap, sess, scheduler, actor>>

\* the interview quota: the users table and those who work on it
quotavars == <<users, procs, started, granted>>

\* what generate_response never touches
reportvars == <<questions_asked, report, rcalls, rreply>>

\* ------------------------------------------------------------------ bounds
\* generate_response calls made on the session
MaxTurns == 2

\* generate_response calls made on each of several concurrent sessions
MaxSessionTurns == 1

\* interviews_remaining of the stored user at the outset: 0..MaxQuota
MaxQuota == 2

\* operations each caller of the quota operations makes
MaxOps == 2

\* ------------------------------------------------------- program constants
max_retries == 3
retry_delay == 2

None == "None"

\* keys of LLMService.interview_phases
interview_phases == {"introduction", "background", "technical", "behavioral", "closing"}

Categories == {"communication", "technical", "behavioral"}

\* InterviewContext.__init__: the scores dict of a new session
InitScores == [communication |-> 0, technical |-> 0, behavioral |-> 0, overall |-> 0]

\* the five keys the prompt asks the provider to return
Fields == {"evaluation", "response", "phase", "feedback", "scores"}

\* ------------------------------------------------ what the provider returns
\* A value of the reported "scores" object, as json.loads yields it.
IntVal(n)   == [t |-> "int", v |-> n, chars |-> <<>>]
StrVal(cs)  == [t |-> "str", v |-> 0, chars |-> cs]
NullVal     == [t |-> "null", v |-> 0, chars |-> <<>>]

Item(k, x) == [key |-> k, val |-> x]

\* the reported "scores" value: a JSON object (its items in document order) or not
Dict(items) == [isdict |-> TRUE, items |-> items]
NotDict     == [isdict |-> FALSE, items |-> <<>>]

Triple(c, t, b) ==
    << Item("communication", IntVal(c)), Item("technical", IntVal(t)),
       Item("behavioral", IntVal(b)) >>

ReportedKeys == Categories \cup {"overall", "pace"}

ReportedVals ==
    { IntVal(-10), IntVal(150), StrVal(<<"8", "0">>), StrVal(<<"n", "a">>), NullVal }

ScoreLists ==
    { <<>>, Triple(70, 60, 50), Triple(65, 80, 50) }
    \cup { <<Item(k, x)>> : k \in ReportedKeys, x \in ReportedVals }
    \cup { <<Item(k1, IntVal(80)), i2>> :
             k1 \in {"communication", "overall"},
             i2 \in { Item("technical", StrVal(<<"n", "a">>)),
                      Item("pace", IntVal(50)),
                      Item("technical", IntVal(60)) } }

ReportedPhases == interview_phases \cup {"wrap-up"}

\* The text model.predict(...).text returns, by what json.loads makes of it:
\*   "raise"   predict itself raises
\*   "text"    the text is not JSON
\*   "value"   the text is JSON but not an object (a list, a number, a string)
\*   "object"  the text is a JSON object with the keys in `present`
Reply(kind, present, phase, sc) ==
    [kind |-> kind, present |-> present, evaluation |-> "e", response |-> "r",
     phase |-> phase, feedback |-> "f", scores |-> sc]

Replies ==
    { Reply(k, {}, None, NotDict) : k \in {"raise", "text", "value"} }
    \cup { Reply("object", Fields, p, Dict(Triple(65, 80, 50))) : p \in ReportedPhases }
    \cup { Reply("object", Fields, "technical", Dict(l)) : l \in ScoreLists }
    \cup { Reply("object", Fields \ {f}, "technical", Dict(Triple(70, 60, 50))) : f \in Fields }
    \cup { Reply("object", Fields, "technical", NotDict) }

Utterances == {"u"}

\* the turn replies the several-interviews specification draws from
SessionReplies ==
    { Reply("raise", {}, None, NotDict),
      Reply("object", Fields, "technical", Dict(Triple(70, 60, 50))),
      Reply("object", Fields, "wrap-up", Dict(Triple(65, 80, 50))),
      Reply("object", Fields, "closing",
            Dict(<<Item("communication", IntVal(80)), Item("technical", StrVal(<<"n", "a">>))>>)) }

\* ---------------------------------------------------------------- helpers
Max(a, b) == IF a >= b THEN a ELSE b

Digits == [c \in {"0", "1", "2", "3", "4", "5", "6", "7", "8", "9"} |->
             CASE c = "0" -> 0 [] c = "1" -> 1 [] c = "2" -> 2 [] c = "3" -> 3
               [] c = "4" -> 4 [] c = "5" -> 5 [] c = "6" -> 6 [] c = "7" -> 7
               [] c = "8" -> 8 [] c = "9" -> 9]

RECURSIVE ParseDigits(_, _)
ParseDigits(cs, acc) ==
    IF cs = <<>> THEN acc
    ELSE ParseDigits(Tail(cs), 10 * acc + Digits[Head(cs)])

\* the digits of a numeric string, after its optional sign
Unsigned(cs) == IF cs # <<>> /\ Head(cs) \in {"-", "+"} THEN Tail(cs) ELSE cs

\* int(score): does it return (TRUE) or raise ValueError / TypeError (FALSE)
Coercible(x) ==
    CASE x.t = "int"  -> TRUE
      [] x.t = "str"  -> /\ Unsigned(x.chars) # <<>>
                         /\ \A i \in 1..Len(Unsigned(x.chars)) :
                               Unsigned(x.chars)[i] \in DOMAIN Digits
      [] OTHER        -> FALSE

\* int(score) where it returns
IntOf(x) ==
    IF x.t = "int" THEN x.v
    ELSE IF Head(x.chars) = "-" THEN 0 - ParseDigits(Unsigned(x.chars), 0)
    ELSE ParseDigits(Unsigned(x.chars), 0)

\* an integer n as scores[key] holds it (overall is kept in thirds)
Stored(key, n) == IF key = "overall" THEN 3 * n ELSE n

\* the watermark with a plausible slip: the reported value overwrites the stored one
WatermarkOverwrite(current, reported) == reported

\* max(context.scores[category], int(score))
Watermark(current, reported) == Max(current, reported)

\* the read with a plausible slip: a missing key reads as 0 (scores.get(category, 0))
LookupDefaulted(sc, category) ==
    [ok |-> TRUE, v |-> IF category \in DOMAIN sc THEN sc[category] ELSE 0]

\* context.scores[category] read: the value, or KeyError for a key the dict lacks
Lookup(sc, category) ==
    IF category \in DOMAIN sc THEN [ok |-> TRUE, v |-> sc[category]]
    ELSE [ok |-> FALSE, v |-> 0]

\* context.scores[category] = v: item assignment sets the key, new or not
Assign(sc, category, v) ==
    IF category \in DOMAIN sc THEN [sc EXCEPT ![category] = v]
    ELSE [k \in DOMAIN sc \cup {category} |-> IF k = category THEN v ELSE sc[k]]

\* "for category, score in response_data["scores"].items(): ..." from item i on:
\* [ok |-> the loop ran to its end, scores |-> the dict when it ended or raised]
RECURSIVE UpdateScores(_, _)
UpdateScores(sc, items) ==
    IF items = <<>> THEN [ok |-> TRUE, scores |-> sc]
    ELSE LET category == Head(items).key
             score    == Head(items).val
             current  == Lookup(sc, category)
         IN  IF ~current.ok THEN [ok |-> FALSE, scores |-> sc]
             ELSE IF ~Coercible(score) THEN [ok |-> FALSE, scores |-> sc]
             ELSE UpdateScores(
                    Assign(sc, category,
                           Watermark(current.v, Stored(category, IntOf(score)))),
                    Tail(items))

\* sum(score for category, score in sc.items() if category in keys)
RECURSIVE SumOver(_, _)
SumOver(sc, keys) ==
    IF keys = {} THEN 0
    ELSE LET k == CHOOSE x \in keys : TRUE
         IN  sc[k] + SumOver(sc, keys \ {k})

\* context.scores["overall"] = sum(the scores under every other key) / 3, in thirds
WithOverall(sc) ==
    [sc EXCEPT !["overall"] = SumOver(sc, DOMAIN sc \ {"overall"})]

\* the extension with a plausible slip: the interviewer's text before the candidate's
HistoryExtendSwapped(h, u, r) == h \o <<r, u>>

\* context.history.extend([user_input, response_data["response"]])
HistoryExtend(h, u, r) == h \o <<u, r>>

\* the lookup with a plausible slip: a default prompt for a missing key
\* (interview_phases.get(...)), so no phase makes it raise
PhaseLookupDefaulted(p) == TRUE

\* self.interview_phases[context.current_phase] returns (TRUE) or raises KeyError
PhaseLookup(p) == p \in interview_phases

\* the phase update with a plausible slip: closing is kept once it is reached
NextPhaseClosingKept(current, reported) == IF current = "closing" THEN current ELSE reported

\* context.current_phase = response_data["phase"]
NextPhase(current, reported) == reported

\* the delay with a plausible slip: a back-off that grows with the attempt
DelayedBackoff(d, a) == d + retry_delay * (a + 1)

\* time.sleep(self.retry_delay) in iteration a: the seconds slept so far, from d
Delayed(d, a) == d + retry_delay

\* The session fields one call works on.
Context(h, p, f, sc) == [history |-> h, current_phase |-> p, feedback |-> f, scores |-> sc]

\* One iteration of the retry loop on context ctx with the provider's reply rd:
\* [ok |-> it reached "return response_data", ctx |-> the context it leaves].
\* Each statement that raises leaves the effects of the statements before it.
TryOnce(ctx, u, rd) ==
    LET c1 == [ctx EXCEPT !.history = HistoryExtend(ctx.history, u, rd.response)]
        c2 == [c1 EXCEPT !.current_phase = NextPhase(c1.current_phase, rd.phase)]
        c3 == [c2 EXCEPT !.feedback = Append(c2.feedback, rd.feedback)]
        up == UpdateScores(c3.scores, rd.scores.items)
        c4 == [c3 EXCEPT !.scores = up.scores]
        c5 == [c4 EXCEPT !.scores = WithOverall(c4.scores)]
    IN  IF rd.kind # "object"           THEN [ok |-> FALSE, ctx |-> ctx]
        ELSE IF "response" \notin rd.present THEN [ok |-> FALSE, ctx |-> ctx]
        ELSE IF "phase" \notin rd.present    THEN [ok |-> FALSE, ctx |-> c1]
        ELSE IF "feedback" \notin rd.present THEN [ok |-> FALSE, ctx |-> c2]
        ELSE IF "scores" \notin rd.present   THEN [ok |-> FALSE, ctx |-> c3]
        ELSE IF ~rd.scores.isdict            THEN [ok |-> FALSE, ctx |-> c3]
        ELSE IF ~up.ok                       THEN [ok |-> FALSE, ctx |-> c4]
        ELSE [ok |-> TRUE, ctx |-> c5]

\* the fallback with a plausible slip: it reports the opening phase
FallbackResponseOpening(sc, p) ==
    [kind |-> "fallback", present |-> Fields,
     evaluation |-> "Error in processing response",
     response |-> "I apologize",
     scores |-> sc, phase |-> "introduction",
     feedback |-> "Technical difficulty in processing response"]

\* the dict of the outer "except": the canned apology with the session's
\* scores and phase as they are when the handler runs
FallbackResponse(sc, p) ==
    [kind |-> "fallback", present |-> Fields,
     evaluation |-> "Error in processing response",
     response |-> "I apologize",
     scores |-> sc, phase |-> p,
     feedback |-> "Technical difficulty in processing response"]

\* "return response_data": the parsed reply itself
Returned(rd) == [rd EXCEPT !.kind = "response"]

NoResult == [kind |-> "none"]

\* no attempt of the call in flight has called the provider yet
NoReply == Reply("none", {}, None, NotDict)

\* ------------------------------------------------------ the final report
\* The text model.predict(report_prompt).text returns, by what json.loads makes
\* of it: "raise", "text", "value" as for a turn, or "object" with the keys in
\* `keys` and, under its "scores" key if it has one, the value `scores`.
ReportReply(kind, keys, sc) == [kind |-> kind, keys |-> keys, scores |-> sc]

\* the five sections the report prompt asks for
Sections == {"executive_summary", "strengths", "areas_for_improvement",
             "detailed_feedback", "recommendations"}

\* a scores value of the provider's own making
ProviderScores == [by |-> "provider",
                   val |-> [communication |-> 10, technical |-> 10, behavioral |-> 10,
                            overall |-> 30]]

\* report_data["scores"] = context.scores binds the session's dict itself, not
\* a copy of it: the entry reads as whatever the session's scores are
SessionScores == [by |-> "context", val |-> InitScores]

NoScores == [by |-> "nobody", val |-> InitScores]

ReportReplies ==
    { ReportReply(k, {}, NoScores) : k \in {"raise", "text", "value"} }
    \cup { ReportReply("object", Sections, NoScores),
           ReportReply("object", {}, NoScores),
           ReportReply("object", Sections \cup {"scores"}, ProviderScores),
           ReportReply("object", {"error", "scores", "timestamp"}, ProviderScores) }

NoReportReply == ReportReply("none", {}, NoScores)

NoReport == [kind |-> "none", keys |-> {}, scores |-> NoScores]

\* the binding with a plausible slip: scores the provider sent are kept
ReportScoresKept(rr) == IF "scores" \in rr.keys THEN rr.scores ELSE SessionScores

\* report_data["scores"] = context.scores
ReportScores(rr) == SessionScores

\* the parsed report with scores and timestamp attached: "return report_data"
FullReport(rr) ==
    [kind |-> "report", keys |-> rr.keys \cup {"scores", "timestamp"},
     scores |-> ReportScores(rr)]

\* the minimal dict with a plausible slip: fresh zero scores, not the session's
DegradedReportZeroed ==
    [kind |-> "degraded", keys |-> {"error", "scores", "timestamp"},
     scores |-> NoScores]

\* the dict of generate_final_report's "except"
DegradedReport ==
    [kind |-> "degraded", keys |-> {"error", "scores", "timestamp"},
     scores |-> SessionScores]

\* the scores a returned report shows when read
ScoresOf(r) == IF r.scores.by = "context" THEN scores ELSE r.scores.val

\* a session with a plausible slip: the assignment written the other way round
\* (context.scores = report_data["scores"])
SessionAfterReportAssigned(ctx, rr) ==
    IF "scores" \in rr.keys THEN [ctx EXCEPT !.scores = rr.scores.val] ELSE ctx

\* the session generate_final_report leaves: it reads history, scores, feedback
\* and resume_data and assigns none of them
SessionAfterReport(ctx, rr) == ctx

\* where a failed report attempt goes, with a plausible slip: the turn's retry loop
ReportRetried(n) == IF n < max_retries THEN "report" ELSE "report_except"

\* where generate_final_report goes when predict or json.loads raises after n
\* provider calls: to its "except"
ReportAfterFailure(n) == "report_except"

\* ------------------------------------------------- several interviews
Sessions == {"A", "B"}

\* an InterviewContext not constructed yet
NoContext ==
    [live |-> FALSE, history |-> 0, scores |-> 0, feedback |-> 0,
     current_phase |-> None, pc |-> "idle", attempt |-> 0, turns |-> 0, ret |-> "none"]

NoSessions ==
    /\ heap = <<>>
    /\ sess = [s \in Sessions |-> NoContext]
    /\ actor = None

\* ------------------------------------------------- the interview quota
\* ids the operations are called with: a stored user and one the table lacks
StoredUsers == {"u1"}
UserIds == StoredUsers \cup {"u0"}

Callers == {"p1", "p2"}

\* a caller between operations
Resting == [pc |-> "idle", op |-> "none", uid |-> None, seen |-> 0,
            found |-> FALSE, read |-> 0, plan |-> None, ret |-> "none",
            lowered |-> "none", ops |-> 0]

\* no quota operation has been called
NoQuota ==
    /\ users = [u \in StoredUsers |-> 1]
    /\ procs = [p \in Callers |-> Resting]
    /\ started = 0
    /\ granted = 1

\* ------------------------------------------------------------------ state
Init ==
    /\ model = "TextGenerationModel"
    /\ history = <<>>
    /\ current_phase = "introduction"
    /\ scores = InitScores
    /\ feedback = <<>>
    /\ pc = "idle"
    /\ attempt = 0
    /\ user_input = None
    /\ calls = 0
    /\ delays = 0
    /\ pre = Context(<<>>, "introduction", <<>>, InitScores)
    /\ result = NoResult
    /\ turns = 0
    /\ reply = NoReply
    /\ questions_asked = <<>>
    /\ report = NoReport
    /\ rcalls = 0
    /\ rreply = NoReportReply
    /\ NoSessions
    /\ NoQuota
    /\ scheduler = "loop"

\* generate_response is entered: the model check, _create_system_prompt and the
\* prompt text; either raises into the outer handler before the loop starts
Enter(u) ==
    /\ pc = "idle"
    /\ turns < MaxTurns
    /\ user_input' = u
    /\ pre' = Context(history, current_phase, feedback, scores)
    /\ calls' = 0
    /\ delays' = 0
    /\ attempt' = 0
    /\ result' = NoResult
    /\ reply' = NoReply
    /\ pc' = IF model = None \/ ~PhaseLookup(current_phase)
             THEN "except" ELSE "loop"
    /\ UNCHANGED <<model, history, current_phase, scores, feedback, turns>>
    /\ UNCHANGED reportvars
    /\ UNCHANGED sessionvars
    /\ UNCHANGED quotavars

\* one iteration of the loop from position `at`: what model.predict gave (rd),
\* json.loads, the context update, and on an exception the inner handler's
\* choice between sleeping and re-raising
AttemptAt(at, rd) ==
    /\ pc = at
    /\ calls' = calls + 1
    /\ reply' = rd
    /\ LET out == TryOnce(Context(history, current_phase, feedback, scores), user_input, rd)
       IN  /\ history' = out.ctx.history
           /\ current_phase' = out.ctx.current_phase
           /\ feedback' = out.ctx.feedback
           /\ scores' = out.ctx.scores
           /\ IF out.ok
                 THEN /\ result' = Returned(rd)
                      /\ pc' = "idle"
                      /\ turns' = turns + 1
                 ELSE /\ pc' = IF attempt = max_retries - 1 THEN "except" ELSE "sleep"
                      /\ UNCHANGED <<result, turns>>
    /\ UNCHANGED <<model, attempt, user_input, delays, pre>>
    /\ UNCHANGED reportvars
    /\ UNCHANGED sessionvars
    /\ UNCHANGED quotavars

\* one iteration of the loop, the provider call and its processing in one step
Attempt(rd) == AttemptAt("loop", rd)

\* time.sleep(self.retry_delay), then the next iteration
Sleep ==
    /\ pc = "sleep"
    /\ delays' = Delayed(delays, attempt)
    /\ attempt' = attempt + 1
    /\ pc' = "loop"
    /\ reply' = NoReply
    /\ UNCHANGED <<model, history, current_phase, scores, feedback, user_input,
                   calls, pre, result, turns>>
    /\ UNCHANGED reportvars
    /\ UNCHANGED sessionvars
    /\ UNCHANGED quotavars

\* the outer handler with a plausible slip: it logs and re-raises, as the
\* handlers of __init__ and _setup_google_auth do
AfterOuterExceptRaised == "raised"

\* where the outer "except Exception" leaves the call: it returns
AfterOuterExcept == "idle"

\* the outer "except Exception": log and return the fallback dict
Fallback ==
    /\ pc = "except"
    /\ result' = FallbackResponse(scores, current_phase)
    /\ pc' = AfterOuterExcept
    /\ turns' = turns + 1
    /\ reply' = NoReply
    /\ UNCHANGED <<model, history, current_phase, scores, feedback, attempt,
                   user_input, calls, delays, pre>>
    /\ UNCHANGED reportvars
    /\ UNCHANGED sessionvars
    /\ UNCHANGED quotavars

Next ==
    \/ \E u \in Utterances : Enter(u)
    \/ \E rd \in Replies : Attempt(rd)
    \/ Sleep
    \/ Fallback

Spec == Init /\ [][Next]_vars

\* ------------------------------------------------------ LLMService.__init__
\* What construction finds: the credentials file (GOOGLE_APPLICATION_CREDENTIALS
\* unset or no such file, a file the loader or vertexai.init rejects, or a good
\* one) and whether TextGenerationModel.from_pretrained returns or raises.
Environments ==
    [credentials : {"missing", "invalid", "ok"}, pretrained : {"raises", "ok"}]

\* construction with a plausible slip: _initialize_model logs and swallows
ConstructsLenient(env) == env.credentials = "ok"

\* __init__ returns: neither _setup_google_auth nor _initialize_model raised
\* (both log and re-raise, and so does __init__)
Constructs(env) == env.credentials = "ok" /\ env.pretrained = "ok"

\* self.model when __init__ is left
ModelAfterInit(env) ==
    IF env.credentials = "ok" /\ env.pretrained = "ok" THEN "TextGenerationModel" ELSE None

\* LLMService(): pc "new" is before the constructor call, "failed" is after it
\* raised (the caller holds no engine)
Construct(env) ==
    /\ pc = "new"
    /\ model' = ModelAfterInit(env)
    /\ pc' = IF Constructs(env) THEN "idle" ELSE "failed"
    /\ UNCHANGED <<history, current_phase, scores, feedback, attempt, user_input,
                   calls, delays, pre, result, turns, reply>>
    /\ UNCHANGED reportvars
    /\ UNCHANGED sessionvars
    /\ UNCHANGED quotavars

InitEngine ==
    /\ model = None
    /\ pc = "new"
    /\ history = <<>>
    /\ current_phase = "introduction"
    /\ scores = InitScores
    /\ feedback = <<>>
    /\ attempt = 0
    /\ user_input = None
    /\ calls = 0
    /\ delays = 0
    /\ pre = Context(<<>>, "introduction", <<>>, InitScores)
    /\ result = NoResult
    /\ turns = 0
    /\ reply = NoReply
    /\ questions_asked = <<>>
    /\ report = NoReport
    /\ rcalls = 0
    /\ rreply = NoReportReply
    /\ NoSessions
    /\ NoQuota
    /\ scheduler = "loop"

NextEngine ==
    \/ \E env \in Environments : Construct(env)
    \/ Next

\* the engine from its construction on, then turns on one session
SpecEngine == InitEngine /\ [][NextEngine]_vars

\* ------------------------------------------- concurrent interviews
\* the objects of a new context with a plausible slip: the lists and the dict
\* made once and shared (mutable defaults), so a second context gets the first's
NewRefsShared(h) ==
    IF Len(h) >= 3 THEN [history |-> 1, scores |-> 2, feedback |-> 3]
    ELSE [history |-> Len(h) + 1, scores |-> Len(h) + 2, feedback |-> Len(h) + 3]

\* InterviewContext.__init__: "self.history = []", "self.scores = {...}",
\* "self.feedback = []" make three new objects for every context
NewRefs(h) == [history |-> Len(h) + 1, scores |-> Len(h) + 2, feedback |-> Len(h) + 3]

\* the heap once a context with objects r is constructed
Allocated(h, r) == IF r.history > Len(h) THEN h \o << <<>>, InitScores, <<>> >> ELSE h

\* what context s reads as: its attribute and the objects its attributes name
View(s) ==
    Context(heap[sess[s].history], sess[s].current_phase,
            heap[sess[s].feedback], heap[sess[s].scores])

\* the heap after the in-place updates (extend, append, item assignment) that
\* take context s to ctx
Written(s, ctx) ==
    [i \in DOMAIN heap |->
        IF i = sess[s].scores THEN ctx.scores
        ELSE IF i = sess[s].feedback THEN ctx.feedback
        ELSE IF i = sess[s].history THEN ctx.history
        ELSE heap[i]]

\* May the call of interview s take a step?  generate_response has no await
\* and sleeps with time.sleep, and generate_final_report is a plain function:
\* on one event loop a call keeps the loop's thread from its entry to its
\* return, so nothing else runs while another interview's call is in flight.
Runnable(s) ==
    scheduler = "threads" \/ \A t \in Sessions \ {s} : sess[t].pc = "idle"

\* InterviewContext(resume_data, ...)
StartSession(s) ==
    /\ ~sess[s].live
    /\ Runnable(s)
    /\ LET r == NewRefs(heap)
       IN  /\ heap' = Allocated(heap, r)
           /\ sess' = [sess EXCEPT ![s] =
                 [live |-> TRUE, history |-> r.history, scores |-> r.scores,
                  feedback |-> r.feedback, current_phase |-> "introduction",
                  pc |-> "idle", attempt |-> 0, turns |-> 0, ret |-> "none"]]
    /\ actor' = s
    /\ UNCHANGED <<model, scheduler>>
    /\ UNCHANGED singlevars
    /\ UNCHANGED quotavars

\* generate_response(context s, u) is entered
SEnter(s) ==
    /\ sess[s].live
    /\ sess[s].pc = "idle"
    /\ sess[s].turns < MaxSessionTurns
    /\ Runnable(s)
    /\ sess' = [sess EXCEPT ![s].attempt = 0, ![s].ret = "none",
                   ![s].pc = IF model = None \/ ~PhaseLookup(sess[s].current_phase)
                             THEN "except" ELSE "loop"]
    /\ actor' = s
    /\ UNCHANGED <<model, heap, scheduler>>
    /\ UNCHANGED singlevars
    /\ UNCHANGED quotavars

\* one iteration of the retry loop of the call on context s
SAttempt(s, u, rd) ==
    /\ sess[s].pc = "loop"
    /\ Runnable(s)
    /\ LET out == TryOnce(View(s), u, rd)
       IN  /\ heap' = Written(s, out.ctx)
           /\ sess' = [sess EXCEPT
                 ![s].current_phase = out.ctx.current_phase,
                 ![s].pc = IF out.ok THEN "idle"
                           ELSE IF sess[s].attempt = max_retries - 1 THEN "except"
                           ELSE "sleep",
                 ![s].turns = IF out.ok THEN @ + 1 ELSE @,
                 ![s].ret = IF out.ok THEN "response" ELSE @]
    /\ actor' = s
    /\ UNCHANGED <<model, scheduler>>
    /\ UNCHANGED singlevars
    /\ UNCHANGED quotavars

\* time.sleep(self.retry_delay) in the call on context s
SSleep(s) ==
    /\ sess[s].pc = "sleep"
    /\ Runnable(s)
    /\ sess' = [sess EXCEPT ![s].pc = "loop", ![s].attempt = @ + 1]
    /\ actor' = s
    /\ UNCHANGED <<model, heap, scheduler>>
    /\ UNCHANGED singlevars
    /\ UNCHANGED quotavars

\* the outer except of the call on context s returns the fallback dict
SFallback(s) ==
    /\ sess[s].pc = "except"
    /\ Runnable(s)
    /\ sess' = [sess EXCEPT ![s].pc = "idle", ![s].turns = @ + 1, ![s].ret = "fallback"]
    /\ actor' = s
    /\ UNCHANGED <<model, heap, scheduler>>
    /\ UNCHANGED singlevars
    /\ UNCHANGED quotavars

\* generate_final_report(context s), from entry to return
SReport(s, rr) ==
    /\ sess[s].live
    /\ sess[s].pc = "idle"
    /\ Runnable(s)
    /\ LET ctx == SessionAfterReport(View(s), rr)
       IN  /\ heap' = Written(s, ctx)
           /\ sess' = [sess EXCEPT
                 ![s].current_phase = ctx.current_phase,
                 ![s].ret = IF model # None /\ rr.kind = "object"
                            THEN FullReport(rr).kind ELSE DegradedReport.kind]
    /\ actor' = s
    /\ UNCHANGED <<model, scheduler>>
    /\ UNCHANGED singlevars
    /\ UNCHANGED quotavars

\* the report replies the several-interviews specification draws from
SessionReportReplies ==
    { ReportReply("raise", {}, NoScores),
      ReportReply("object", Sections \cup {"scores"}, ProviderScores) }

\* a step of a generate_response call on context s
TurnStep(s) ==
    \/ \E u \in Utterances : SEnter(s)
    \/ \E u \in Utterances, rd \in SessionReplies : SAttempt(s, u, rd)
    \/ SSleep(s)
    \/ SFallback(s)

InitSessions ==
    /\ model = "TextGenerationModel"
    /\ history = <<>>
    /\ current_phase = "introduction"
    /\ scores = InitScores
    /\ feedback = <<>>
    /\ pc = "idle"
    /\ attempt = 0
    /\ user_input = None
    /\ calls = 0
    /\ delays = 0
    /\ pre = Context(<<>>, "introduction", <<>>, InitScores)
    /\ result = NoResult
    /\ turns = 0
    /\ reply = NoReply
    /\ questions_asked = <<>>
    /\ report = NoReport
    /\ rcalls = 0
    /\ rreply = NoReportReply
    /\ NoSessions
    /\ NoQuota
    /\ scheduler \in {"loop", "threads"}

NextSessions ==
    \/ \E s \in Sessions : StartSession(s)
    \/ \E s \in Sessions : SEnter(s)
    \/ \E s \in Sessions, u \in Utterances, rd \in SessionReplies : SAttempt(s, u, rd)
    \/ \E s \in Sessions : SSleep(s)
    \/ \E s \in Sessions : SFallback(s)
    \/ \E s \in Sessions, rr \in SessionReportReplies : SReport(s, rr)

\* two interviews on one engine, their calls run by one event loop or by threads
SpecSessions == InitSessions /\ [][NextSessions]_vars

\* ------------------------------------------------- generate_final_report
\* generate_final_report is entered: the model check and the report prompt
ReportEnter ==
    /\ pc = "idle"
    /\ rcalls' = 0
    /\ rreply' = NoReportReply
    /\ report' = NoReport
    /\ pc' = IF model = None THEN "report_except" ELSE "report"
    /\ UNCHANGED <<model, history, current_phase, scores, feedback, attempt, user_input,
                   calls, delays, pre, result, turns, reply, questions_asked>>
    /\ UNCHANGED sessionvars
    /\ UNCHANGED quotavars

\* model.predict(report_prompt), json.loads, the two assignments and the return,
\* or the exception one of them raises
ReportPredict(rr) ==
    /\ pc = "report"
    /\ rcalls' = rcalls + 1
    /\ rreply' = rr
    /\ LET ctx == SessionAfterReport(Context(history, current_phase, feedback, scores), rr)
       IN  /\ history' = ctx.history
           /\ current_phase' = ctx.current_phase
           /\ feedback' = ctx.feedback
           /\ scores' = ctx.scores
    /\ IF rr.kind = "object"
          THEN /\ report' = FullReport(rr)
               /\ pc' = "idle"
          ELSE /\ report' = report
               /\ pc' = ReportAfterFailure(rcalls + 1)
    /\ UNCHANGED <<model, attempt, user_input, calls, delays, pre, result, turns, reply,
                   questions_asked>>
    /\ UNCHANGED sessionvars
    /\ UNCHANGED quotavars

\* the "except Exception" of generate_final_report: log and return the minimal dict
ReportDegrade ==
    /\ pc = "report_except"
    /\ report' = DegradedReport
    /\ pc' = "idle"
    /\ UNCHANGED <<model, history, current_phase, scores, feedback, attempt, user_input,
                   calls, delays, pre, result, turns, reply, questions_asked, rcalls, rreply>>
    /\ UNCHANGED sessionvars
    /\ UNCHANGED quotavars

\* the turn replies the report specification draws from
ReportTurnReplies ==
    { Reply("raise", {}, None, NotDict),
      Reply("object", Fields, "technical", Dict(Triple(70, 60, 50))),
      Reply("object", Fields, "closing", Dict(Triple(65, 80, 50))),
      Reply("object", Fields, "technical",
            Dict(<<Item("communication", IntVal(80)), Item("technical", StrVal(<<"n", "a">>))>>)) }

NextReport ==
    \/ \E u \in Utterances : Enter(u)
    \/ \E rd \in ReportTurnReplies : Attempt(rd)
    \/ Sleep
    \/ Fallback
    \/ ReportEnter
    \/ \E rr \in ReportReplies : ReportPredict(rr)
    \/ ReportDegrade

\* turns and reports on one session, in any order
SpecReport == Init /\ [][NextReport]_vars

\* --------------------------------------------------- phases in any order
\* the turn replies the phase specification draws from: a failure and, for
\* every phase the provider may report, a reply that reports it
PhaseReplies ==
    { Reply("raise", {}, None, NotDict) }
    \cup { Reply("object", Fields, p, Dict(Triple(65, 80, 50))) : p \in ReportedPhases }

NextPhases ==
    \/ \E u \in Utterances : Enter(u)
    \/ \E rd \in PhaseReplies : Attempt(rd)
    \/ Sleep
    \/ Fallback

\* turns on one session whose provider reports the phases in any order
SpecPhases == Init /\ [][NextPhases]_vars

\* ------------------------------------------------------- the turn's prompt
\* the slice with a plausible slip: the first four entries (history[:4])
WindowFirst(h) == SubSeq(h, 1, IF Len(h) < 4 THEN Len(h) ELSE 4)

\* context.history[-4:]
Window(h) == SubSeq(h, Max(1, Len(h) - 3), Len(h))

\* 'Interviewer' if i%2==0 else 'Candidate', i counted from 0 by enumerate
Label(i) == IF i % 2 = 0 THEN "Interviewer" ELSE "Candidate"

\* the lines of "Previous Conversation": one "<label>: <msg>" per window entry
Conversation(h) ==
    [k \in 1..Len(Window(h)) |-> [label |-> Label(k - 1), msg |-> Window(h)[k]]]

\* full_prompt, by its parts in the order of the text: the phase the system
\* prompt is made for, the conversation lines, then "Candidate: {user_input}"
FullPrompt(ctx, u) ==
    [phase |-> ctx.current_phase,
     lines |-> Conversation(ctx.history) \o << [label |-> "Candidate", msg |-> u] >>]

\* A prompt exists for the call in flight or last returned: the call got past
\* the model check and _create_system_prompt.
PromptBuilt == user_input # None /\ model # None /\ pre.current_phase \in interview_phases

\* the prompt of that call: built once before the loop, from the session as it
\* was at entry, and sent unchanged by every attempt
full_prompt == FullPrompt(pre, user_input)

\* what the candidate says and what the provider has the interviewer say
PromptUtterances == {"u1", "u2"}
PromptResponses == {"r1", "r2"}

\* who spoke a history entry
Speaker(msg) == IF msg \in PromptUtterances THEN "Candidate" ELSE "Interviewer"

\* the turn replies the prompt specification draws from
PromptReplies ==
    { Reply("raise", {}, None, NotDict) }
    \cup { [Reply("object", Fields, "technical", Dict(Triple(70, 60, 50))) EXCEPT !.response = r] :
             r \in PromptResponses }
    \cup { [Reply("object", Fields \ {"scores"}, "technical", NotDict) EXCEPT !.response = r] :
             r \in PromptResponses }

NextPrompt ==
    \/ \E u \in PromptUtterances : Enter(u)
    \/ \E rd \in PromptReplies : Attempt(rd)
    \/ Sleep
    \/ Fallback

\* turns on one session with utterances and responses that can be told apart
SpecPrompt == Init /\ [][NextPrompt]_vars

\* ------------------------------------------- the provider call in flight
\* self.model.predict(full_prompt, ...) is called: the call is a plain blocking
\* call with no timeout argument and nothing around it that could end it
Predict ==
    /\ pc = "loop"
    /\ pc' = "predict"
    /\ UNCHANGED <<model, history, current_phase, scores, feedback, attempt, user_input,
                   calls, delays, pre, result, turns, reply>>
    /\ UNCHANGED reportvars
    /\ UNCHANGED sessionvars
    /\ UNCHANGED quotavars

\* model.predict returns or raises, and the iteration goes on from there
Answer(rd) == AttemptAt("predict", rd)

\* the turn replies the specifications with the provider call in flight draw from
LiveReplies == SessionReplies

\* the steps generate_response takes by itself
EngineStep == Predict \/ Sleep \/ Fallback

\* the provider ends the call in flight
ProviderStep == \E rd \in LiveReplies : Answer(rd)

NextLive ==
    \/ \E u \in Utterances : Enter(u)
    \/ Predict
    \/ \E rd \in LiveReplies : Answer(rd)
    \/ Sleep
    \/ Fallback

\* Turns with the provider call as a step of its own.  The interpreter runs the
\* coroutine on and time.sleep returns (weak fairness of the engine's steps);
\* every provider call eventually returns or raises (weak fairness of the
\* provider's step).
SpecLive == Init /\ [][NextLive]_vars /\ WF_vars(EngineStep) /\ WF_vars(ProviderStep)

\* The same with a provider that may never answer.
SpecHung == Init /\ [][NextLive]_vars /\ WF_vars(EngineStep)

\* every call that is entered returns
TurnsComplete == (pc # "idle") ~> (pc = "idle")

\* ---------------------------------------- interview quota: the operations
\* settings.SUBSCRIPTION_PLANS: interviews_per_month of each plan
SUBSCRIPTION_PLANS == [free |-> 1, basic |-> 5, premium |-> 20]

\* the plan names update_subscription is called with: the plans and one that is none
PlanNames == DOMAIN SUBSCRIPTION_PLANS \cup {"gold"}

\* the test with a plausible slip: only a negative counter counts as used up
ExhaustedBelowZero(n) == n < 0

\* "user.interviews_remaining <= 0" (decrement_interviews) and
\* "user['interviews_remaining'] <= 0" (_start_phone_interview)
Exhausted(n) == n <= 0

\* self.db.query(User).filter(User.id == uid).first(): the row, or none
Row(uid) ==
    IF uid \in DOMAIN users THEN [found |-> TRUE, n |-> users[uid]]
    ELSE [found |-> FALSE, n |-> 0]

\* caller p has returned from its operation with ret
Back(p, ret) ==
    [procs EXCEPT ![p].pc = "idle", ![p].ret = ret, ![p].ops = @ + 1]

\* _start_phone_interview is entered: get_user and the check of what it
\* returned.  For an id the table lacks get_user returns None and the
\* subscript raises into the method's except.
get_user(p, uid) ==
    /\ procs[p].pc = "idle"
    /\ procs[p].ops < MaxOps
    /\ LET row == Row(uid)
       IN  procs' =
             IF ~row.found THEN Back(p, "error")
             ELSE IF Exhausted(row.n) THEN Back(p, "refused")
             ELSE [procs EXCEPT ![p].pc = "dial", ![p].op = "start", ![p].uid = uid,
                                ![p].seen = row.n, ![p].ret = "none",
                                ![p].lowered = "none"]
    /\ UNCHANGED <<users, started, granted>>
    /\ UNCHANGED <<model, singlevars, sessionvars>>

\* await twilio_service.start_interview_call(...): (True, sid) or (False, None);
\* on success the session state is updated and decrement_interviews is called
start_interview_call(p, success) ==
    /\ procs[p].pc = "dial"
    /\ IF success
          THEN /\ started' = started + 1
               /\ procs' = [procs EXCEPT ![p].pc = "dec_read"]
          ELSE /\ started' = started
               /\ procs' = Back(p, "call_failed")
    /\ UNCHANGED <<users, granted>>
    /\ UNCHANGED <<model, singlevars, sessionvars>>

\* decrement_interviews(uid) is called by itself
decrement_interviews(p, uid) ==
    /\ procs[p].pc = "idle"
    /\ procs[p].ops < MaxOps
    /\ procs' = [procs EXCEPT ![p].pc = "dec_read", ![p].op = "decrement",
                              ![p].uid = uid, ![p].ret = "none", ![p].lowered = "none"]
    /\ UNCHANGED <<users, started, granted>>
    /\ UNCHANGED <<model, singlevars, sessionvars>>

\* decrement_interviews: the query
DecrementRead(p) ==
    /\ procs[p].pc = "dec_read"
    /\ procs' = [procs EXCEPT ![p].pc = "dec_write",
                              ![p].found = Row(procs[p].uid).found,
                              ![p].read = Row(procs[p].uid).n]
    /\ UNCHANGED <<users, started, granted>>
    /\ UNCHANGED <<model, singlevars, sessionvars>>

\* decrement_interviews: the test, "user.interviews_remaining -= 1" on the
\* object the query gave, the commit and the return.  _start_phone_interview
\* does not look at what is returned.
DecrementWrite(p) ==
    /\ procs[p].pc = "dec_write"
    /\ LET refuse == ~procs[p].found \/ Exhausted(procs[p].read)
           returned == IF refuse THEN "False" ELSE "True"
       IN  /\ users' = IF refuse THEN users
                       ELSE [users EXCEPT ![procs[p].uid] = procs[p].read - 1]
           /\ procs' = [procs EXCEPT
                 ![p].pc = "idle", ![p].ops = @ + 1, ![p].lowered = returned,
                 ![p].ret = IF procs[p].op = "start" THEN "started" ELSE returned]
    /\ UNCHANGED <<started, granted>>
    /\ UNCHANGED <<model, singlevars, sessionvars>>

\* update_subscription(uid, plan) is called: the query
update_subscription(p, uid, plan) ==
    /\ procs[p].pc = "idle"
    /\ procs[p].ops < MaxOps
    /\ procs' = [procs EXCEPT ![p].pc = "upd_write", ![p].op = "update",
                              ![p].uid = uid, ![p].plan = plan, ![p].ret = "none",
                              ![p].found = Row(uid).found, ![p].read = Row(uid).n]
    /\ UNCHANGED <<users, started, granted>>
    /\ UNCHANGED <<model, singlevars, sessionvars>>

\* update_subscription: the two tests, the assignment of the plan's
\* interviews_per_month, the commit and the return
UpdateWrite(p) ==
    /\ procs[p].pc = "upd_write"
    /\ LET refuse == ~procs[p].found \/ procs[p].plan \notin DOMAIN SUBSCRIPTION_PLANS
       IN  /\ users' = IF refuse THEN users
                       ELSE [users EXCEPT ![procs[p].uid] = SUBSCRIPTION_PLANS[procs[p].plan]]
           /\ procs' = [Back(p, IF refuse THEN "False" ELSE "True") EXCEPT ![p].plan = None]
    /\ UNCHANGED <<started, granted>>
    /\ UNCHANGED <<model, singlevars, sessionvars>>

InitQuota ==
    /\ model = "TextGenerationModel"
    /\ history = <<>>
    /\ current_phase = "introduction"
    /\ scores = InitScores
    /\ feedback = <<>>
    /\ pc = "idle"
    /\ attempt = 0
    /\ user_input = None
    /\ calls = 0
    /\ delays = 0
    /\ pre = Context(<<>>, "introduction", <<>>, InitScores)
    /\ result = NoResult
    /\ turns = 0
    /\ reply = NoReply
    /\ questions_asked = <<>>
    /\ report = NoReport
    /\ rcalls = 0
    /\ rreply = NoReportReply
    /\ heap = <<>>
    /\ sess = [s \in Sessions |-> NoContext]
    /\ actor = None
    /\ scheduler = "threads"
    /\ granted \in 0..MaxQuota
    /\ users = [u \in StoredUsers |-> granted]
    /\ procs = [p \in Callers |-> Resting]
    /\ started = 0

NextQuota ==
    \/ \E p \in Callers, uid \in UserIds : get_user(p, uid)
    \/ \E p \in Callers, success \in BOOLEAN : start_interview_call(p, success)
    \/ \E p \in Callers : DecrementRead(p)
    \/ \E p \in Callers : DecrementWrite(p)

\* _start_phone_interview runs for one user, interleaved at their database and
\* telephony calls (script threads or server processes on one database)
SpecQuota == InitQuota /\ [][NextQuota]_vars

NextCounter ==
    \/ \E p \in Callers, uid \in UserIds : decrement_interviews(p, uid)
    \/ \E p \in Callers : DecrementRead(p)
    \/ \E p \in Callers : DecrementWrite(p)
    \/ \E p \in Callers, uid \in UserIds, plan \in PlanNames : update_subscription(p, uid, plan)
    \/ \E p \in Callers : UpdateWrite(p)

\* decrement_interviews and update_subscription calls, in any order and interleaving
SpecCounter == InitQuota /\ [][NextCounter]_vars

\* ----------------------------------------------------- observation points
\* no call is in flight and the last call returned the parsed reply
Succeeded == pc = "idle" /\ result.kind = "response"

\* no call is in flight and the last call returned the fallback dict
FellBack == pc = "idle" /\ result.kind = "fallback"

\* the integer the returned reply reports for category c (0 when it reports none)
RECURSIVE ReportedIn(_, _)
ReportedIn(items, c) ==
    IF items = <<>> THEN 0
    ELSE IF Head(items).key = c THEN IntOf(Head(items).val)
    ELSE ReportedIn(Tail(items), c)

\* the returned reply reports every category, each as a number
ReportsAll(items) ==
    /\ \A i \in 1..Len(items) : Coercible(items[i].val)
    /\ \A c \in Categories : \E i \in 1..Len(items) : items[i].key = c

\* ------------------------------------------------------------------ claims

\* C1  Monotonic scores: whatever the provider reports, at every point of a
\* generate_response call and after it returns, each of communication,
\* technical and behavioral is at least what it was when the call was entered.
C1_MonotonicScores ==
    \A c \in Categories : scores[c] >= pre.scores[c]

\* C1 witness: a call returned a reply that reports, for some category, less
\* than the positive value stored at entry, and the stored value was kept.
C1_Witness ==
    /\ Succeeded
    /\ \E i \in 1..Len(result.scores.items) :
         LET it == result.scores.items[i]
         IN  /\ it.key \in Categories
             /\ Coercible(it.val)
             /\ pre.scores[it.key] > 0
             /\ IntOf(it.val) < pre.scores[it.key]
             /\ scores[it.key] = pre.scores[it.key]

\* C2  Overall invariant: whenever no call is in flight (after construction and
\* after every return, by success or by fallback), overall is the mean of the
\* three categories (in thirds: their sum).
C2_OverallInvariant ==
    pc = "idle" =>
        scores["overall"] = scores["communication"] + scores["technical"] + scores["behavioral"]

\* C3  History growth on success: a call that returned the parsed reply, on
\* whichever attempt, left history 2 entries and feedback 1 entry longer than
\* they were when the call was entered.
C3_HistoryGrowth ==
    Succeeded =>
        /\ Len(history) = Len(pre.history) + 2
        /\ Len(feedback) = Len(pre.feedback) + 1

\* C4  State unchanged on a fully failed turn: a call whose every attempt failed
\* left history, feedback, current_phase and the four scores as they were when
\* the call was entered.
C4_FailedTurnUnchanged ==
    (FellBack /\ calls = max_retries) =>
        Context(history, current_phase, feedback, scores) = pre

\* C5  Fallback never throws: every call ends by returning (the model has no
\* position in which an exception has left generate_response), and what it
\* returns has the five fields evaluation, response, scores, phase, feedback.
C5_FiveFieldResult ==
    /\ pc \in {"idle", "loop", "sleep", "except"}
    /\ (pc = "idle" /\ result.kind # "none") => Fields \subseteq result.present

\* C6  Fallback echoes pre-call state: the fallback dict of a call whose every
\* attempt failed carries the phase and the scores the session had when the
\* call was entered.
C6_FallbackEchoesPreCall ==
    (FellBack /\ calls = max_retries) =>
        /\ result.phase = pre.current_phase
        /\ result.scores = pre.scores

\* C7  Retry budget: a call makes at most 3 provider calls; the fallback dict is
\* returned only after exactly 3 failed attempts; a call that succeeds on
\* attempt k made exactly k provider calls.
C7_RetryBudget ==
    /\ calls <= max_retries
    /\ FellBack => calls = max_retries
    /\ Succeeded => (calls = attempt + 1 /\ calls \in 1..max_retries)

\* C8  Score aggregation rule: after a call that returned a reply reporting the
\* three categories, each stored category is the larger of its value at entry
\* and the reported value, and overall is their mean.
C8_AggregationRule ==
    (Succeeded /\ ReportsAll(result.scores.items)) =>
        /\ \A c \in Categories :
              scores[c] = Max(pre.scores[c], ReportedIn(result.scores.items, c))
        /\ scores["overall"] =
              scores["communication"] + scores["technical"] + scores["behavioral"]

\* C9  Phase membership: current_phase is always one of introduction,
\* background, technical, behavioral, closing.
C9_PhaseMembership ==
    current_phase \in interview_phases

\* C10  Score range: each of communication, technical, behavioral and overall
\* is always in 0..100 (overall, kept in thirds, in 0..300).
C10_ScoreRange ==
    /\ \A c \in Categories : scores[c] \in 0..100
    /\ scores["overall"] \in 0..300

\* a reported scores object holds a value int() raises on
HasBadScore(items) == \E i \in 1..Len(items) : ~Coercible(items[i].val)

\* a reply that parses, has the four keys the code reads and a scores object
\* whose keys are all keys of the session's scores
WellKeyed(rd) ==
    /\ rd.kind = "object"
    /\ {"response", "phase", "feedback", "scores"} \subseteq rd.present
    /\ rd.scores.isdict
    /\ \A i \in 1..Len(rd.scores.items) : rd.scores.items[i].key \in DOMAIN InitScores

\* C11  Successful-turn update: the attempt that returns extends history with
\* the candidate utterance and then the reply's response, sets current_phase
\* to the reply's phase, appends the reply's feedback to feedback, and returns
\* the parsed reply itself.
C11_SuccessfulTurnUpdate ==
    [][ (pc = "loop" /\ pc' = "idle") =>
          /\ history' = history \o <<user_input, reply'.response>>
          /\ current_phase' = reply'.phase
          /\ feedback' = feedback \o <<reply'.feedback>>
          /\ result'.kind = "response"
          /\ \A f \in {"present", "evaluation", "response", "phase", "feedback", "scores"} :
                result'[f] = reply'[f] ]_vars

\* C11 witness: a call returned on a later attempt, after the attempts before it
\* failed, with the utterance and the response as the last two history entries.
C11_Witness ==
    /\ Succeeded
    /\ calls >= 2
    /\ Len(history) >= 2
    /\ history[Len(history) - 1] = user_input
    /\ history[Len(history)] = result.response
    /\ current_phase = result.phase

\* C19  Per-attempt atomicity under bad scores: an attempt whose reply parses
\* but reports a score int() cannot coerce leaves history, feedback,
\* current_phase and every score as they were before that attempt.
C19_BadScoreAttemptAtomic ==
    [][ (pc = "loop" /\ WellKeyed(reply') /\ HasBadScore(reply'.scores.items)) =>
          /\ pc' \in {"sleep", "except"}
          /\ UNCHANGED <<history, feedback, current_phase, scores>> ]_vars

\* C20  History/feedback length relation: whenever no call is in flight,
\* len(history) is even and twice len(feedback).
C20_HistoryTwiceFeedback ==
    pc = "idle" =>
        /\ Len(history) % 2 = 0
        /\ Len(history) = 2 * Len(feedback)
\* a generate_final_report call is in flight
InReport == pc \in {"report", "report_except"}

\* no call is in flight and the last generate_final_report call has returned
Reported == pc = "idle" /\ report.kind # "none"

\* C12  Report degrades gracefully: a generate_final_report call whose provider
\* call raised or gave text that is not a JSON object, or that found no
\* provider handle, returned an object with exactly the keys error, scores and
\* timestamp, whose scores are the session's.
C12_ReportDegrades ==
    (Reported /\ (rreply.kind \in {"raise", "text", "value"} \/ rcalls = 0)) =>
        /\ report.kind = "degraded"
        /\ report.keys = {"error", "scores", "timestamp"}
        /\ ScoresOf(report) = scores

\* C12 witness: a degraded report was returned, after a reply that is JSON but
\* no object, on a session whose scores are no longer the initial ones.
C12_Witness ==
    /\ Reported
    /\ rreply.kind = "value"
    /\ report.kind = "degraded"
    /\ scores # InitScores

\* C13  Report carries the watermarked scores: a report returned on the success
\* path has a scores entry and it reads as the session's stored scores, whatever
\* the provider's report text had under scores.
C13_ReportCarriesSessionScores ==
    (Reported /\ report.kind = "report") =>
        /\ "scores" \in report.keys
        /\ ScoresOf(report) = scores

\* C13 witness: a report was returned from a reply that had scores of its own,
\* different from the session's.
C13_Witness ==
    /\ Reported
    /\ report.kind = "report"
    /\ "scores" \in rreply.keys
    /\ rreply.scores.val # scores
    /\ scores # InitScores

\* C14  generate_final_report does not mutate the session: no step of a
\* generate_final_report call, on the success or the degraded path, changes
\* history, feedback, current_phase, scores or questions_asked.
C14_ReportKeepsSession ==
    [][ (InReport \/ InReport') =>
          UNCHANGED <<history, feedback, current_phase, scores, questions_asked>> ]_vars

\* C14 witness: a report whose reply had scores of its own was returned on a
\* session that has history and scores.
C14_Witness ==
    /\ Reported
    /\ report.kind = "report"
    /\ "scores" \in rreply.keys
    /\ Len(history) > 0
    /\ scores # InitScores
    /\ turns = 1

\* C15  Report is single-attempt: a generate_final_report call makes at most one
\* provider call; when that call fails the next step is the except handler,
\* which returns the degraded report with no further provider call, and no
\* step of the call sleeps.
C15_ReportSingleAttempt ==
    [][ /\ rcalls' <= 1
        /\ (pc = "report" /\ rreply'.kind # "object") => pc' = "report_except"
        /\ pc = "report_except" =>
              (pc' = "idle" /\ report'.kind = "degraded" /\ rcalls' = rcalls)
        /\ (InReport \/ InReport') => delays' = delays ]_vars

\* C15 witness: a degraded report was returned after exactly one provider call.
C15_Witness ==
    /\ Reported
    /\ report.kind = "degraded"
    /\ rcalls = 1
\* LLMService.is_available()
is_available == model # None

\* C18  Missing provider is a construction-time error only: when construction
\* raised there is no engine and no turn has run; on a constructed engine
\* is_available() is true at every point of every generate_response call; and
\* a call that goes to the fallback before any provider call does so because
\* of the phase lookup, never because the handle is missing.
C18_MissingProviderOnlyAtConstruction ==
    /\ pc = "failed" => (~is_available /\ turns = 0 /\ result = NoResult)
    /\ pc \notin {"new", "failed"} => is_available
    /\ (pc = "except" /\ calls = 0) => current_phase \notin interview_phases

\* C18 witness: on a constructed engine a call returned the fallback without
\* calling the provider, and the provider handle is there.
C18_Witness ==
    /\ FellBack
    /\ calls = 0
    /\ is_available
\* C16  Session independence: a step of a call (generate_response or
\* generate_final_report) on one interview, under either scheduler and in any
\* interleaving, leaves every other constructed interview's history, feedback,
\* current_phase and scores as they were.
C16_SessionIndependence ==
    [][ \A t \in Sessions :
          (sess[t].live /\ actor' # t) => View(t)' = View(t) ]_vars

\* C16 witness: interview A has completed a turn that changed its state, by a
\* step taken while interview B's call was in flight, and B still reads as new.
C16_Witness ==
    /\ sess["A"].live /\ sess["B"].live
    /\ actor = "A"
    /\ sess["A"].turns = 1
    /\ Len(View("A").history) >= 2
    /\ View("A").scores # InitScores
    /\ sess["B"].pc = "loop"
    /\ View("B") = Context(<<>>, "introduction", <<>>, InitScores)

\* C17  Non-blocking retry delay: on one event loop, while the call of one
\* interview is in its retry delay, a generate_response call of another
\* constructed interview that still has a turn to make can take a step.
C17_NonBlockingDelay ==
    \A s \in Sessions, t \in Sessions :
        ( /\ scheduler = "loop"
          /\ s # t
          /\ sess[s].pc = "sleep"
          /\ sess[t].live
          /\ sess[t].turns < MaxSessionTurns ) => ENABLED TurnStep(t)

\* C21  Delay placement: within one generate_response call a delay of
\* retry_delay (2) occurs after each failed attempt that is followed by another
\* attempt and nowhere else: none before the first attempt, none after the
\* attempt that returns, none after the last failed attempt, so a call whose
\* every attempt failed has waited exactly twice.
C21_DelayPlacement ==
    /\ [](/\ pc = "loop" => delays = retry_delay * calls
          /\ pc = "sleep" => delays = retry_delay * (calls - 1)
          /\ (pc = "except" /\ calls > 0) => delays = retry_delay * (calls - 1)
          /\ Succeeded => delays = retry_delay * (calls - 1)
          /\ (FellBack /\ calls = max_retries) => delays = 2 * retry_delay
          /\ calls = 0 => delays = 0)
    /\ [][ delays' # delays =>
              \/ pc = "idle" /\ delays' = 0
              \/ /\ pc = "sleep" /\ pc' = "loop"
                 /\ calls' = calls /\ calls < max_retries
                 /\ delays' = delays + 2 ]_vars

\* C21 witness: a call whose three attempts all failed has returned the
\* fallback after two delays of 2.
C21_Witness ==
    /\ FellBack
    /\ calls = max_retries
    /\ delays = 4

\* C22  Turn termination: when every provider call eventually returns or
\* raises, every generate_response call that is entered eventually returns a
\* result; and while a provider call is in flight the engine has no step of
\* its own (no timeout), so the call goes on only by the provider's answer.
C22_TurnTermination ==
    /\ (pc # "idle") ~> (pc = "idle" /\ result.kind \in {"response", "fallback"})
    /\ [](pc = "predict" => ~ENABLED (EngineStep \/ \E u \in Utterances : Enter(u)))
    /\ [][ (pc = "predict" /\ pc' # "predict") =>
              (calls' = calls + 1 /\ reply' \in LiveReplies) ]_vars

\* C22 witness: a call returned after the provider had answered three calls,
\* two of them with failures.
C22_Witness ==
    /\ Succeeded
    /\ calls = max_retries
    /\ delays = 2 * retry_delay
    /\ reply \in LiveReplies

\* C23  No transition table: after a call that returned the parsed reply,
\* current_phase is the phase that reply reported, whatever the phase was
\* before; a session in any catalog phase, closing included, accepts a turn,
\* and for every catalog phase (earlier, the same or later) there is a reply
\* with which the attempt about to run returns with that phase stored.
C23_NoTransitionTable ==
    /\ Succeeded => (current_phase = result.phase /\ result.phase = reply.phase)
    /\ (pc = "idle" /\ turns < MaxTurns /\ current_phase \in interview_phases) =>
          ENABLED ((\E u \in Utterances : Enter(u)) /\ pc' = "loop")
    /\ pc = "loop" =>
          \A p \in interview_phases :
              \E rd \in PhaseReplies :
                  LET out == TryOnce(Context(history, current_phase, feedback, scores),
                                     user_input, rd)
                  IN  out.ok /\ out.ctx.current_phase = p

\* C23 witness: a turn entered in closing returned with the session back in
\* introduction.
C23_Witness ==
    /\ Succeeded
    /\ pre.current_phase = "closing"
    /\ current_phase = "introduction"
    /\ result.phase = "introduction"

\* C24  Prompt history window: the prompt built for a call holds exactly the
\* last min(4, len(history)) entries of the history the call found, in their
\* order, and after them the new candidate utterance; no older entry is in it.
C24_PromptWindow ==
    PromptBuilt =>
        LET h == pre.history
            n == IF Len(h) < 4 THEN Len(h) ELSE 4
        IN  /\ Len(full_prompt.lines) = n + 1
            /\ \A k \in 1..n : full_prompt.lines[k].msg = h[Len(h) - n + k]
            /\ full_prompt.lines[n + 1] = [label |-> "Candidate", msg |-> user_input]

\* C24 witness: a call was entered on a history of more than four entries whose
\* fifth-last entry differs from every entry of the window.
C24_Witness ==
    /\ PromptBuilt
    /\ pc = "loop"
    /\ Len(pre.history) > 4
    /\ \A k \in 1..4 : full_prompt.lines[k].msg # pre.history[Len(pre.history) - 4]

\* C25  Speaker labels match speakers: in the prompt built for a call, every
\* history entry that is a candidate utterance is labelled Candidate and
\* every entry that is an interviewer response is labelled Interviewer.
C25_SpeakerLabels ==
    PromptBuilt =>
        \A k \in 1..Len(full_prompt.lines) :
            full_prompt.lines[k].label = Speaker(full_prompt.lines[k].msg)

\* C26  Unknown phase is absorbing: once current_phase is not a key of the
\* phase catalog and no attempt is running, no later step changes history,
\* feedback, current_phase or scores; and every call entered on such a session
\* returns the fallback after zero provider calls and zero delays.
C26_UnknownPhaseAbsorbing ==
    /\ [](pre.current_phase \notin interview_phases =>
            /\ pc \in {"except", "idle"}
            /\ calls = 0 /\ delays = 0
            /\ (pc = "idle" => result.kind = "fallback"))
    /\ [][ (current_phase \notin interview_phases /\ pc \in {"idle", "except"}) =>
              /\ UNCHANGED <<history, feedback, current_phase, scores>>
              /\ pc' \in {"idle", "except"} ]_vars

\* C26 witness: a turn returned a reply that stored a phase outside the catalog,
\* and the next call on the session returned the fallback without a provider
\* call, the session being as that turn left it.
C26_Witness ==
    /\ FellBack
    /\ turns = 2
    /\ calls = 0 /\ delays = 0
    /\ current_phase = "wrap-up"
    /\ history = <<"u", "r">>
    /\ feedback = <<"f">>
    /\ scores # InitScores

\* C27  Returned phase agrees with stored phase: when a call has returned, by
\* the parsed reply or by the fallback, the phase of what it returned is the
\* session's current_phase.
C27_ReturnedPhaseAgrees ==
    (pc = "idle" /\ result.kind \in {"response", "fallback"}) =>
        /\ "phase" \in result.present
        /\ result.phase = current_phase

\* C27 witness: a call whose attempts all failed returned the fallback with a
\* phase that is the stored one and not the one the call was entered in.
C27_Witness ==
    /\ FellBack
    /\ calls = max_retries
    /\ current_phase # pre.current_phase
    /\ result.phase = current_phase

\* the reply's scores object has a key the session's scores dict lacks
HasForeignKey(rd) ==
    /\ rd.kind = "object"
    /\ "scores" \in rd.present
    /\ rd.scores.isdict
    /\ \E i \in 1..Len(rd.scores.items) : rd.scores.items[i].key \notin DOMAIN InitScores

\* C28  Score key set is fixed: the keys of scores are always communication,
\* technical, behavioral and overall; an attempt whose reply has any other
\* key in its scores object adds no key and fails (it goes to the delay or to
\* the outer handler, never to the return).
C28_ScoreKeysFixed ==
    /\ DOMAIN scores = {"communication", "technical", "behavioral", "overall"}
    /\ HasForeignKey(reply) => pc \in {"sleep", "except"}

\* C28 witness: an attempt failed on the key pace after it had stored the
\* category reported before it, and the key set is as it was.
C28_Witness ==
    /\ HasForeignKey(reply)
    /\ pc = "sleep"
    /\ Len(reply.scores.items) = 2
    /\ reply.scores.items[2].key = "pace"
    /\ scores["communication"] = 80
    /\ DOMAIN scores = DOMAIN InitScores

\* no quota operation is in flight
AllQuiet == \A p \in Callers : procs[p].pc = "idle"

\* C29  Interview quota under concurrent starts: for a user with n remaining
\* interviews, in any interleaving of _start_phone_interview runs the calls
\* started never exceed n, and once the runs are over interviews_remaining is
\* n less one for every call started.
C29_QuotaUnderConcurrentStarts ==
    /\ started <= granted
    /\ AllQuiet => \A u \in StoredUsers : users[u] = granted - started

\* C30  Remaining-interviews counter never goes negative: from a non-negative
\* value, whatever decrement_interviews and update_subscription calls are made,
\* interviews_remaining stays >= 0; and a decrement_interviews call whose
\* query found no user, or a user with interviews_remaining <= 0, returns
\* False and writes nothing.
C30_CounterNonNegative ==
    /\ [](\A u \in DOMAIN users : users[u] >= 0)
    /\ [][ \A p \in Callers :
              ( /\ procs[p].pc = "dec_write"
                /\ procs'[p].pc = "idle"
                /\ (~procs[p].found \/ procs[p].read <= 0) ) =>
              (procs'[p].lowered = "False" /\ users' = users) ]_vars

\* C30 witness: the counter is 0 after a decrement_interviews call returned
\* True and a later one, on the used-up counter, returned False.
C30_Witness ==
    /\ users["u1"] = 0
    /\ \E p \in Callers, q \in Callers :
          /\ procs[p].op = "decrement" /\ procs[p].pc = "idle" /\ procs[p].lowered = "False"
          /\ procs[p].found /\ procs[p].read = 0
          /\ procs[q].op = "decrement" /\ procs[q].pc = "idle" /\ procs[q].lowered = "True"
====
